---- MODULE Spec2Model ----
(***************************************************************************)
(* Model of the transaction summary dashboard (src/sales.py): the date     *)
(* window resolution (get_date_range), the row filter                      *)
(* (filter_data_by_date), the cached loading/aggregation pipeline          *)
(* (load_and_process_data) and the script's use of it.                     *)
(*                                                                         *)
(* Values are tagged records: a datetime / pandas Timestamp is             *)
(* [kind |-> "datetime", year, month, day, sec] (sec = second of the day), *)
(* None, NaT and NaN are records of their own kind, a text cell is         *)
(* [kind |-> "str", ...], an amount is [kind |-> "float", mils] with the   *)
(* amount counted in thousandths of the currency unit.                     *)
(***************************************************************************)
EXTENDS Integers, Sequences, FiniteSets, TLC

VARIABLES
    pc,              \* position of the modelled call / script run
    now,             \* the wall clock, what datetime.now() returns
    filter_option,   \* the period token passed to the call
    reference_date,  \* get_date_range's reference_date argument (None or datetime)
    date_range,      \* get_date_range's return value <<start_date, end_date>>
    df,              \* the dataframe handed to filter_data_by_date
    uploaded_file,   \* the file handed to load_and_process_data
    window,          \* <<start_date, end_date>> handed to filter_data_by_date
    filtered,        \* filter_data_by_date's return value
    bundle,          \* load_and_process_data's return value
    cache,           \* st.cache_data's store for load_and_process_data
    requested_at,    \* the clock when the last rerun asked for the bundle
    calls,           \* number of script reruns so far
    ticks            \* number of days the clock has advanced

vars == <<pc, now, filter_option, reference_date, date_range, df, uploaded_file,
          window, filtered, bundle, cache, requested_at, calls, ticks>>

-----------------------------------------------------------------------------
(* Bounds of the model *)

FirstYear == 2023        \* first year reference instants are drawn from
YearSpan == 2            \* reference instants cover FirstYear .. FirstYear + YearSpan
MaxFilterRows == 2       \* rows of a dataframe handed to filter_data_by_date
MaxRows == 2             \* rows of an uploaded file
MaxCalls == 3            \* script reruns in one session
MaxTicks == 2            \* midnights passed in one session

-----------------------------------------------------------------------------
(* Values *)

None == [kind |-> "None"]
NaT == [kind |-> "NaT"]
NaN == [kind |-> "NaN"]

DateTime(y, m, d, s) == [kind |-> "datetime", year |-> y, month |-> m, day |-> d, sec |-> s]

IsDateTime(v) == v.kind = "datetime"

-----------------------------------------------------------------------------
(* The proleptic Gregorian calendar of datetime / timedelta *)

IsLeap(y) == (y % 4 = 0) /\ ((y % 100 # 0) \/ (y % 400 = 0))

DaysInMonth(y, m) ==
    IF m = 2 THEN (IF IsLeap(y) THEN 29 ELSE 28)
    ELSE IF m \in {4, 6, 9, 11} THEN 30 ELSE 31

DaysBeforeYear(y) ==
    (y - 1) * 365 + ((y - 1) \div 4) - ((y - 1) \div 100) + ((y - 1) \div 400)

RECURSIVE DaysBeforeMonth(_, _)
DaysBeforeMonth(y, m) ==
    IF m = 1 THEN 0 ELSE DaysBeforeMonth(y, m - 1) + DaysInMonth(y, m - 1)

\* datetime.toordinal(): January 1 of year 1 is day 1
ToOrdinal(dt) == DaysBeforeYear(dt.year) + DaysBeforeMonth(dt.year, dt.month) + dt.day

\* the year holding ordinal n, by the 400/100/4/1-year cycles
YearOfOrdinal(n) ==
    LET n0 == n - 1
        n400 == n0 \div 146097
        r400 == n0 % 146097
        n100 == r400 \div 36524
        r100 == r400 % 36524
        n4 == r100 \div 1461
        r4 == r100 % 1461
        n1 == r4 \div 365
        y == n400 * 400 + n100 * 100 + n4 * 4 + n1 + 1
    IN IF n1 = 4 \/ n100 = 4 THEN y - 1 ELSE y

\* date.fromordinal(n), keeping the second of the day s
FromOrdinal(n, s) ==
    LET y == YearOfOrdinal(n)
        r == n - DaysBeforeYear(y)
        m == CHOOSE k \in 1..12 :
                 /\ DaysBeforeMonth(y, k) < r
                 /\ r <= DaysBeforeMonth(y, k) + DaysInMonth(y, k)
    IN DateTime(y, m, r - DaysBeforeMonth(y, m), s)

\* dt - timedelta(days=k)
MinusDays(dt, k) == FromOrdinal(ToOrdinal(dt) - k, dt.sec)

\* dt + timedelta(seconds=s) for 0 <= dt.sec + s < 2 days
PlusSeconds(dt, s) ==
    LET t == dt.sec + s
    IN FromOrdinal(ToOrdinal(dt) + (t \div 86400), t % 86400)

\* dt.replace(hour=0, minute=0, second=0, microsecond=0) / Timestamp.normalize()
Midnight(dt) == [dt EXCEPT !.sec = 0]

\* a <= b on datetimes
DtLeq(a, b) ==
    \/ a.year < b.year
    \/ a.year = b.year /\ a.month < b.month
    \/ a.year = b.year /\ a.month = b.month /\ a.day < b.day
    \/ a.year = b.year /\ a.month = b.month /\ a.day = b.day /\ a.sec <= b.sec

-----------------------------------------------------------------------------
(* get_date_range *)

FilterOptions ==
    {"All Time", "Today", "Yesterday", "Last 7 Days", "Last 30 Days",
     "Last 90 Days", "Last 180 Days", "Last 365 Days", "This Month",
     "Previous Month", "This Year", "Previous Year"}

\* the "Yesterday" branch
YesterdayRange(today) ==
    LET yesterday == MinusDays(today, 1)
    IN <<yesterday, yesterday>>

\* mutant: the window reaches N days back instead of N-1
LastDaysBackOffByOne(n) == n

\* the "Last N Days" branches: timedelta(days=N-1) back from today
LastDaysBack(n) == n - 1

LastDaysRange(today, n) == <<MinusDays(today, LastDaysBack(n)), today>>

\* mutant: the previous month is taken to start 30 days before this month
PreviousMonthRangeThirtyDays(today) ==
    LET first_day_this_month == [today EXCEPT !.day = 1]
    IN <<MinusDays(first_day_this_month, 30), MinusDays(first_day_this_month, 1)>>

\* the "Previous Month" branch
PreviousMonthRange(today) ==
    LET first_day_this_month == [today EXCEPT !.day = 1]
        last_day_prev_month == MinusDays(first_day_this_month, 1)
    IN <<[last_day_prev_month EXCEPT !.day = 1], last_day_prev_month>>

\* mutant: the start keeps the reference's year
PreviousYearRangeStartThisYear(today) ==
    <<[today EXCEPT !.month = 1, !.day = 1],
      [today EXCEPT !.year = today.year - 1, !.month = 12, !.day = 31]>>

\* the "Previous Year" branch
PreviousYearRange(today) ==
    <<[today EXCEPT !.year = today.year - 1, !.month = 1, !.day = 1],
      [today EXCEPT !.year = today.year - 1, !.month = 12, !.day = 31]>>

get_date_range(option, ref, clock) ==
    LET reference == IF ref = None THEN clock ELSE ref
        today == Midnight(reference)
    IN CASE option = "Today" -> <<today, today>>
         [] option = "Yesterday" -> YesterdayRange(today)
         [] option = "Last 7 Days" -> LastDaysRange(today, 7)
         [] option = "Last 30 Days" -> LastDaysRange(today, 30)
         [] option = "Last 90 Days" -> LastDaysRange(today, 90)
         [] option = "Last 180 Days" -> LastDaysRange(today, 180)
         [] option = "Last 365 Days" -> LastDaysRange(today, 365)
         [] option = "This Month" -> <<[today EXCEPT !.day = 1], today>>
         [] option = "Previous Month" -> PreviousMonthRange(today)
         [] option = "This Year" -> <<[today EXCEPT !.month = 1, !.day = 1], today>>
         [] option = "Previous Year" -> PreviousYearRange(today)
         [] OTHER -> <<None, None>>

-----------------------------------------------------------------------------
(* Specification SpecRange: one call of get_date_range *)

RefYears == FirstYear .. (FirstYear + YearSpan)

TimesOfDay == {0, 86399}

Instants ==
    {DateTime(y, m, d, s) : y \in RefYears, m \in 1..12, d \in 1..31, s \in TimesOfDay}

RefInstants == {i \in Instants : i.day <= DaysInMonth(i.year, i.month)}

DefaultNow == DateTime(FirstYear + 1, 3, 15, 46800)

Idle == <<None, None>>

InitRange ==
    /\ pc = "call"
    /\ now = DefaultNow
    /\ filter_option \in FilterOptions \cup {"Custom"}
    /\ reference_date \in RefInstants \cup {None}
    /\ date_range = Idle
    /\ df = None
    /\ uploaded_file = None
    /\ window = Idle
    /\ filtered = None
    /\ bundle = None
    /\ cache = <<>>
    /\ requested_at = None
    /\ calls = 0
    /\ ticks = 0

ResolveRange ==
    /\ pc = "call"
    /\ date_range' = get_date_range(filter_option, reference_date, now)
    /\ pc' = "done"
    /\ UNCHANGED <<now, filter_option, reference_date, df, uploaded_file, window,
                   filtered, bundle, cache, requested_at, calls, ticks>>

NextRange == ResolveRange

SpecRange == InitRange /\ [][NextRange]_vars

\* the reference instant the call resolves against
Reference == IF reference_date = None THEN now ELSE reference_date

\* C1: for every period token other than All Time and every reference
\* instant get_date_range returns (start, end) with start <= end; for
\* All Time it returns (None, None).
C1_StartNotAfterEnd ==
    (pc = "done" /\ filter_option \in FilterOptions) =>
        IF filter_option = "All Time"
        THEN date_range = <<None, None>>
        ELSE /\ IsDateTime(date_range[1])
             /\ IsDateTime(date_range[2])
             /\ DtLeq(date_range[1], date_range[2])
             /\ ToOrdinal(date_range[1]) <= ToOrdinal(date_range[2])

C1_Witness ==
    /\ pc = "done"
    /\ filter_option = "Previous Year"
    /\ Reference.month = 2 /\ Reference.day = 29
    /\ date_range[1].year = Reference.year - 1
    /\ date_range[1] # date_range[2]

LastDaysOf(option) ==
    CASE option = "Last 7 Days" -> 7
      [] option = "Last 30 Days" -> 30
      [] option = "Last 90 Days" -> 90
      [] option = "Last 180 Days" -> 180
      [] option = "Last 365 Days" -> 365
      [] OTHER -> 0

\* C2: for N in {7, 30, 90, 180, 365} the window of "Last N Days" ends on
\* the reference's calendar day and starts N-1 days before it, so that it
\* holds exactly N calendar days.
C2_LastDaysSpanN ==
    (pc = "done" /\ LastDaysOf(filter_option) > 0) =>
        LET start == date_range[1]
            end == date_range[2]
        IN /\ end = [Reference EXCEPT !.sec = 0]
           /\ start.sec = 0
           /\ start.day \in 1..DaysInMonth(start.year, start.month)
           /\ ToOrdinal(start) = ToOrdinal(end) - (LastDaysOf(filter_option) - 1)
           /\ ToOrdinal(end) - ToOrdinal(start) + 1 = LastDaysOf(filter_option)

C2_Witness ==
    /\ pc = "done"
    /\ filter_option = "Last 365 Days"
    /\ Reference.sec > 0
    /\ date_range[1].year = Reference.year - 1
    /\ date_range[2].day = Reference.day

\* C3: "Previous Month" yields the first and the last day of the calendar
\* month before the reference's month: January gives December 1..31 of the
\* prior year, March gives February 1..29 in a leap year and 1..28 otherwise.
C3_PreviousMonthWhole ==
    (pc = "done" /\ filter_option = "Previous Month") =>
        LET ref == Reference
            pm == IF ref.month = 1 THEN 12 ELSE ref.month - 1
            py == IF ref.month = 1 THEN ref.year - 1 ELSE ref.year
            leap == (py % 4 = 0) /\ ((py % 100 # 0) \/ (py % 400 = 0))
            last == CASE pm = 2 -> (IF leap THEN 29 ELSE 28)
                      [] pm \in {4, 6, 9, 11} -> 30
                      [] OTHER -> 31
        IN /\ date_range[1] = DateTime(py, pm, 1, 0)
           /\ date_range[2] = DateTime(py, pm, last, 0)

C3_Witness ==
    /\ pc = "done"
    /\ filter_option = "Previous Month"
    /\ Reference.month = 3
    /\ date_range[2].month = 2 /\ date_range[2].day = 29

-----------------------------------------------------------------------------
(* Dataframes: [columns |-> set of column names, rows |-> sequence of rows], *)
(* a row being a function from the column names to cell values.             *)

CategoryColumn == "Transaction Category"
AmountColumn == "Amount Paid"
DateColumn == "Created On"

\* a text cell that spells a date and a time of day
DateText(y, m, d, s) == [kind |-> "str", year |-> y, month |-> m, day |-> d, sec |-> s]

\* the text cell "not-a-date"
NotADate == [kind |-> "str", text |-> "not-a-date"]

Float(mils) == [kind |-> "float", mils |-> mils]

\* pd.to_datetime(cell, errors='coerce'): a Timestamp, or NaT for an empty
\* cell, for text that is no date and for text that names no calendar day
to_datetime(v) ==
    CASE v.kind = "datetime" -> v
      [] v.kind = "str" ->
            IF /\ "year" \in DOMAIN v
               /\ v.month \in 1..12
               /\ v.day \in 1..DaysInMonth(v.year, v.month)
               /\ v.sec \in 0..86399
            THEN DateTime(v.year, v.month, v.day, v.sec)
            ELSE NaT
      [] OTHER -> NaT

\* df[date_column] = pd.to_datetime(df[date_column], errors='coerce')
ConvertColumn(d, col) ==
    [d EXCEPT !.rows = [i \in 1..Len(d.rows) |->
                           [d.rows[i] EXCEPT ![col] = to_datetime(d.rows[i][col])]]]

HasValue(row, col) == row[col] # NaT /\ row[col] # NaN

\* df.dropna(subset=[col])
DropNa(d, col) ==
    LET Keep(row) == HasValue(row, col)
    IN [d EXCEPT !.rows = SelectSeq(d.rows, Keep)]

-----------------------------------------------------------------------------
(* filter_data_by_date *)

\* mutant: the end bound is the end day's midnight and the row's own time of
\* day is compared against it
InWindowRawAgainstMidnight(ts, start_date, end_date) ==
    /\ DtLeq(Midnight(start_date), ts)
    /\ DtLeq(ts, Midnight(end_date))

\* the mask of one row: its timestamp ts against the normalized bounds
InWindow(ts, start_date, end_date) ==
    LET date_only == Midnight(ts)
        start_date_normalized == Midnight(start_date)
        end_date_normalized == PlusSeconds(Midnight(end_date), 86400 - 1)
    IN /\ DtLeq(start_date_normalized, date_only)
       /\ DtLeq(date_only, end_date_normalized)

\* an exception leaving the function
Raised(name) == [kind |-> "exception", name |-> name]

filter_data_by_date(d, start_date, end_date, date_column) ==
    IF start_date = None \/ end_date = None
    THEN d
    ELSE IF date_column \notin d.columns
    THEN Raised("KeyError")
    ELSE LET df_filtered == DropNa(ConvertColumn(d, date_column), date_column)
             Mask(row) == InWindow(row[date_column], start_date, end_date)
         IN [df_filtered EXCEPT !.rows = SelectSeq(df_filtered.rows, Mask)]

-----------------------------------------------------------------------------
(* Specification SpecFilter: one call of filter_data_by_date *)

\* sequences over S of length at most n
SeqsUpTo(S, n) == UNION {[1..k -> S] : k \in 0..n}

\* the last day of February of the year after FirstYear and the days around it
EndOfFebruary == MinusDays(DateTime(FirstYear + 1, 3, 1, 0), 1)

FilterDays ==
    {MinusDays(EndOfFebruary, 2), MinusDays(EndOfFebruary, 1), EndOfFebruary,
     DateTime(FirstYear + 1, 3, 1, 0), DateTime(FirstYear + 1, 3, 2, 0)}

FilterCells ==
    {DateText(t.year, t.month, t.day, s) : t \in FilterDays, s \in TimesOfDay}
        \cup {DateText(FirstYear + 1, 2, 30, 0), NotADate, NaN}

FilterRows ==
    {(CategoryColumn :> "A") @@ (AmountColumn :> Float(10)) @@ (DateColumn :> c) :
        c \in FilterCells}

FilterBounds ==
    {MinusDays(EndOfFebruary, 1), [EndOfFebruary EXCEPT !.sec = 46800],
     DateTime(FirstYear + 1, 3, 1, 0), None}

InitFilter ==
    /\ pc = "call"
    /\ now = DefaultNow
    /\ filter_option = "All Time"
    /\ reference_date = None
    /\ date_range = Idle
    /\ df \in {[kind |-> "dataframe", columns |-> {CategoryColumn, AmountColumn, DateColumn}, rows |-> r] :
                  r \in SeqsUpTo(FilterRows, MaxFilterRows)}
    /\ uploaded_file = None
    /\ window \in FilterBounds \X FilterBounds
    /\ filtered = None
    /\ bundle = None
    /\ cache = <<>>
    /\ requested_at = None
    /\ calls = 0
    /\ ticks = 0

FilterRowsByDate ==
    /\ pc = "call"
    /\ filtered' = filter_data_by_date(df, window[1], window[2], DateColumn)
    /\ pc' = "done"
    /\ UNCHANGED <<now, filter_option, reference_date, date_range, df,
                   uploaded_file, window, bundle, cache, requested_at, calls, ticks>>

NextFilter == FilterRowsByDate

SpecFilter == InitFilter /\ [][NextFilter]_vars

\* the calendar day of a timestamp, as a number
DayNumber(ts) == ts.year * 10000 + ts.month * 100 + ts.day

\* the row's timestamp parses and its calendar day lies in [start, end]
C4_Kept(row) ==
    /\ to_datetime(row[DateColumn]) # NaT
    /\ DayNumber(window[1]) <= DayNumber(to_datetime(row[DateColumn]))
    /\ DayNumber(to_datetime(row[DateColumn])) <= DayNumber(window[2])

\* C4: for a bounded window filter_data_by_date returns exactly the rows
\* whose timestamp parses and whose calendar day d has start <= d <= end
\* (whatever the time of day), in their order; rows with an absent or
\* unparsable timestamp are dropped; for the unbounded window the rows are
\* returned unchanged.
C4_FilterKeepsDaysInWindow ==
    (pc = "done") =>
        IF window = <<None, None>>
        THEN filtered = df
        ELSE (window[1] # None /\ window[2] # None) =>
             LET kept == SelectSeq(df.rows, C4_Kept)
             IN /\ filtered.columns = df.columns
                /\ Len(filtered.rows) = Len(kept)
                /\ \A i \in 1..Len(kept) :
                      /\ filtered.rows[i][CategoryColumn] = kept[i][CategoryColumn]
                      /\ filtered.rows[i][AmountColumn] = kept[i][AmountColumn]
                      /\ filtered.rows[i][DateColumn] = to_datetime(kept[i][DateColumn])

\* a row of the end day's last second is kept while a row of the day after
\* the end and an unparsable row are dropped
C4_Witness ==
    /\ pc = "done"
    /\ window[1] # None /\ window[2] # None
    /\ Len(df.rows) = 2
    /\ Len(filtered.rows) = 1
    /\ filtered.rows[1][DateColumn].sec = 86399
    /\ DayNumber(filtered.rows[1][DateColumn]) = DayNumber(window[2])
    /\ \E i \in 1..2 : df.rows[i][DateColumn] = NotADate

-----------------------------------------------------------------------------
(* The aggregation of load_and_process_data *)

\* the category labels of the model, in the order groupby sorts its keys
CategoryOrder == <<"A", "B">>

RECURSIVE SumAmounts(_)
\* the 'sum' aggregation of the amount column: empty cells are skipped
SumAmounts(rows) ==
    IF rows = <<>> THEN 0
    ELSE (IF Head(rows)[AmountColumn] = NaN THEN 0 ELSE Head(rows)[AmountColumn].mils)
         + SumAmounts(Tail(rows))

\* the 'count' aggregation of the amount column: the cells that are not empty
CountAmounts(rows) ==
    LET Present(row) == row[AmountColumn] # NaN
    IN Len(SelectSeq(rows, Present))

\* .round(2) of an amount in thousandths: the nearest hundredth, a half going
\* to the even one
Round2(mils) ==
    LET q == mils \div 10
        r == mils % 10
    IN IF r < 5 THEN q * 10
       ELSE IF r > 5 THEN (q + 1) * 10
       ELSE IF q % 2 = 0 THEN q * 10 ELSE (q + 1) * 10

\* the rows of one group
GroupOf(d, category) ==
    LET Member(row) == row[CategoryColumn] = category
    IN SelectSeq(d.rows, Member)

\* df.groupby('Transaction Category').agg(count, sum).reset_index() with the
\* totals rounded: one row per category present, in key order
GroupBy(d) ==
    LET Present(category) == \E i \in 1..Len(d.rows) : d.rows[i][CategoryColumn] = category
        keys == SelectSeq(CategoryOrder, Present)
    IN [i \in 1..Len(keys) |->
           [category |-> keys[i],
            n_transactions |-> CountAmounts(GroupOf(d, keys[i])),
            total_amount_paid |-> Round2(SumAmounts(GroupOf(d, keys[i])))]]

\* the rearrangements of a table
Rearrangements(table) ==
    {[i \in 1..Len(table) |-> table[p[i]]] : p \in Permutations(1..Len(table))}

\* mutant: the table is sorted by total ascending
SortValuesAscending(table) ==
    {t \in Rearrangements(table) :
        \A i \in 1..(Len(t) - 1) : t[i].total_amount_paid <= t[i + 1].total_amount_paid}

\* sort_values('Total Amount Paid', ascending=False) with the default sort
\* kind, which is not stable: every arrangement by total descending is a
\* possible outcome, rows of equal total in any order
SortValues(table) ==
    {t \in Rearrangements(table) :
        \A i \in 1..(Len(t) - 1) : t[i].total_amount_paid >= t[i + 1].total_amount_paid}

RECURSIVE SumTotals(_)
SumTotals(table) ==
    IF table = <<>> THEN 0 ELSE Head(table).total_amount_paid + SumTotals(Tail(table))

RECURSIVE SumCounts(_)
SumCounts(table) ==
    IF table = <<>> THEN 0 ELSE Head(table).n_transactions + SumCounts(Tail(table))

\* transaction_summary['Total Amount Paid'].sum()
GrandTotalAmount(table) == SumTotals(table)

\* mutant: the number of summary rows instead of the sum of their counts
GrandTotalCountRows(table) == Len(table)

\* transaction_summary['# of transactions'].sum()
GrandTotalCount(table) == SumCounts(table)

-----------------------------------------------------------------------------
(* load_and_process_data *)

Bundle(original, summary, total, count, start_date, end_date) ==
    [kind |-> "bundle", original_df |-> original, transaction_summary |-> summary,
     grand_total_amount |-> total, grand_total_count |-> count,
     start_date |-> start_date, end_date |-> end_date]

\* the summary dataframe of the aggregate rows t
SummaryFrame(t) ==
    [kind |-> "dataframe",
     columns |-> {CategoryColumn, "# of transactions", "Total Amount Paid"},
     rows |-> t]

\* what the function returns when the file cannot be read
LoadFailure == Bundle(None, None, None, None, None, None)

\* mutant: the timestamp column is converted but the rows that did not parse stay
PrepareDatesKeepNaT(d, date_column) ==
    IF date_column \in d.columns THEN ConvertColumn(d, date_column) ELSE d

\* the conversion of the timestamp column and the drop of the rows that did
\* not parse, whatever the period
PrepareDates(d, date_column) ==
    IF date_column \in d.columns
    THEN DropNa(ConvertColumn(d, date_column), date_column)
    ELSE d

\* mutant: the filter runs whether or not the file has the timestamp column
ShouldFilterAnyFile(d, start_date, date_column) == start_date # None

\* the guard of the date filter
ShouldFilter(d, start_date, date_column) ==
    start_date # None /\ date_column \in d.columns

\* the rows that reach the aggregation, for the window <<start, end>>
RowsToAggregate(data, range, date_column) ==
    LET d == PrepareDates(data, date_column)
    IN IF ShouldFilter(d, range[1], date_column)
       THEN filter_data_by_date(d, range[1], range[2], date_column)
       ELSE d

\* the returns of the aggregation step, one for each outcome of the sort
Summarize(original, d, range) ==
    IF d.kind = "exception" THEN {d}
    ELSE IF Len(d.rows) = 0
    THEN {Bundle(original, None, 0, 0, range[1], range[2])}
    ELSE {Bundle(original, SummaryFrame(t), GrandTotalAmount(t), GrandTotalCount(t), range[1], range[2]) :
             t \in SortValues(GroupBy(d))}

\* the body of load_and_process_data, run at clock time `clock`: the set of
\* its possible returns
load_and_process_data(file, option, date_column, clock) ==
    IF ~file.readable
    THEN {LoadFailure}
    ELSE LET range == get_date_range(option, None, clock)
         IN Summarize(file.data, RowsToAggregate(file.data, range, date_column), range)

-----------------------------------------------------------------------------
(* Specification SpecLoad: one call of load_and_process_data's body *)

\* a timestamp of the last second of the clock's first day, one of the first
\* second of February's last day
LoadCells ==
    {DateText(FirstYear + 1, 3, 15, 86399),
     DateText(EndOfFebruary.year, EndOfFebruary.month, EndOfFebruary.day, 0), NotADate}

LoadAmounts == {Float(4), Float(10), NaN}

Categories == {CategoryOrder[i] : i \in 1..Len(CategoryOrder)}

RowsWithDate ==
    {(CategoryColumn :> c) @@ (AmountColumn :> a) @@ (DateColumn :> t) :
        c \in Categories, a \in LoadAmounts, t \in LoadCells}

RowsWithoutDate ==
    {(CategoryColumn :> c) @@ (AmountColumn :> a) : c \in Categories, a \in LoadAmounts}

DataFrames ==
    {[kind |-> "dataframe", columns |-> {CategoryColumn, AmountColumn, DateColumn}, rows |-> r] :
        r \in SeqsUpTo(RowsWithDate, MaxRows)}
    \cup
    {[kind |-> "dataframe", columns |-> {CategoryColumn, AmountColumn}, rows |-> r] :
        r \in SeqsUpTo(RowsWithoutDate, MaxRows)}

Files ==
    {[kind |-> "file", name |-> "export.csv", readable |-> TRUE, data |-> d] : d \in DataFrames}
    \cup {[kind |-> "file", name |-> "broken.xlsx", readable |-> FALSE, data |-> None]}

\* the clock at the call: the afternoon of March 15 and the first second of
\* the next year
NowSet == {DefaultNow, DateTime(FirstYear + 2, 1, 1, 0)}

InitLoad ==
    /\ pc = "call"
    /\ now \in NowSet
    /\ filter_option \in FilterOptions
    /\ reference_date = None
    /\ date_range = Idle
    /\ df = None
    /\ uploaded_file \in Files
    /\ window = Idle
    /\ filtered = None
    /\ bundle = None
    /\ cache = <<>>
    /\ requested_at = None
    /\ calls = 0
    /\ ticks = 0

LoadAndProcess ==
    /\ pc = "call"
    /\ bundle' \in load_and_process_data(uploaded_file, filter_option, DateColumn, now)
    /\ pc' = "done"
    /\ UNCHANGED <<now, filter_option, reference_date, date_range, df,
                   uploaded_file, window, filtered, cache, requested_at, calls, ticks>>

NextLoad == LoadAndProcess

SpecLoad == InitLoad /\ [][NextLoad]_vars

\* the window the call resolves and the rows that reach its aggregation step
Resolved == get_date_range(filter_option, None, now)

Reaching == RowsToAggregate(uploaded_file.data, Resolved, DateColumn)

Returned == pc = "done" /\ uploaded_file.readable

HasSummary == bundle.transaction_summary # None

\* C5: the aggregate table has exactly one row per distinct category present
\* among the rows reaching the aggregation, whose count is the number of rows
\* of that category and whose total is the sum of their amounts, rounded once
\* after the summation.
C5_OneRowPerCategory ==
    (Returned /\ HasSummary) =>
        \A c \in Categories :
            LET table == bundle.transaction_summary.rows
                group == GroupOf(Reaching, c)
                hits == {i \in 1..Len(table) : table[i].category = c}
            IN IF group = <<>>
               THEN hits = {}
               ELSE /\ Cardinality(hits) = 1
                    /\ \A i \in hits :
                          /\ table[i].n_transactions = Len(group)
                          /\ table[i].total_amount_paid = Round2(SumAmounts(group))

RECURSIVE C6_Total(_, _)
C6_Total(table, n) ==
    IF n = 0 THEN 0 ELSE table[n].total_amount_paid + C6_Total(table, n - 1)

RECURSIVE C6_Count(_, _)
C6_Count(table, n) ==
    IF n = 0 THEN 0 ELSE table[n].n_transactions + C6_Count(table, n - 1)

\* C6: grand_total is the sum of total_amount over the rows of the aggregate
\* table and grand_count the sum of their counts; when no row reaches the
\* aggregation both are 0 and the table is the empty marker None.
C6_TotalsReconcile ==
    Returned =>
        IF Reaching.rows = <<>>
        THEN /\ bundle.transaction_summary = None
             /\ bundle.grand_total_amount = 0
             /\ bundle.grand_total_count = 0
        ELSE LET table == bundle.transaction_summary.rows
             IN /\ HasSummary
                /\ bundle.grand_total_amount = C6_Total(table, Len(table))
                /\ bundle.grand_total_count = C6_Count(table, Len(table))

C6_Witness ==
    /\ Returned /\ HasSummary
    /\ Len(bundle.transaction_summary.rows) = 2
    /\ bundle.grand_total_amount = 10
    /\ bundle.grand_total_count = 2

\* the position of a category's first row in the input row-set
FirstRowOf(category) ==
    CHOOSE i \in 1..Len(uploaded_file.data.rows) :
        /\ uploaded_file.data.rows[i][CategoryColumn] = category
        /\ \A j \in 1..(i - 1) : uploaded_file.data.rows[j][CategoryColumn] # category

\* C7, as claimed: the aggregate table is ordered by total_amount descending
\* and categories of equal total appear in the order their first rows have
\* in the input row-set.
C7_DescendingTiesByEncounter ==
    (Returned /\ HasSummary) =>
        LET table == bundle.transaction_summary.rows
        IN \A i, j \in 1..Len(table) :
              (i < j) =>
                  /\ table[i].total_amount_paid >= table[j].total_amount_paid
                  /\ (table[i].total_amount_paid = table[j].total_amount_paid) =>
                        FirstRowOf(table[i].category) < FirstRowOf(table[j].category)

\* C7, amended: the aggregate table is ordered by total_amount descending
\* (never a smaller total before a larger one); the order of categories of
\* equal total is not fixed by the input order.
C7_Descending ==
    (Returned /\ HasSummary) =>
        LET table == bundle.transaction_summary.rows
        IN \A i, j \in 1..Len(table) :
              (i < j) => table[i].total_amount_paid >= table[j].total_amount_paid

C7_Witness ==
    /\ Returned /\ HasSummary
    /\ Len(bundle.transaction_summary.rows) = 2
    /\ bundle.transaction_summary.rows[1].category = "B"
    /\ bundle.transaction_summary.rows[1].total_amount_paid > bundle.transaction_summary.rows[2].total_amount_paid

\* C8: when the file has no timestamp column the call filters nothing for
\* any period token and aggregates all rows of the input, raising no error.
C8_NoDateColumnNoFilter ==
    (Returned /\ DateColumn \notin uploaded_file.data.columns) =>
        LET all == uploaded_file.data
            groups == GroupBy(all)
        IN /\ bundle.kind = "bundle"
           /\ bundle.original_df = all
           /\ IF all.rows = <<>>
              THEN bundle.transaction_summary = None /\ bundle.grand_total_count = 0
              ELSE /\ HasSummary
                   /\ Len(bundle.transaction_summary.rows) = Len(groups)
                   /\ \A i \in 1..Len(groups) :
                         \E j \in 1..Len(groups) : bundle.transaction_summary.rows[j] = groups[i]
                   /\ bundle.grand_total_count = CountAmounts(all.rows)
                   /\ bundle.grand_total_amount = C6_Total(groups, Len(groups))

C8_Witness ==
    /\ Returned
    /\ DateColumn \notin uploaded_file.data.columns
    /\ filter_option = "Today"
    /\ bundle.start_date # None
    /\ bundle.grand_total_count = 2

\* the rows of a category whose timestamp parses
C9_Parsable(category) ==
    LET Good(row) ==
            /\ row[CategoryColumn] = category
            /\ to_datetime(row[DateColumn]) # NaT
    IN SelectSeq(uploaded_file.data.rows, Good)

\* C9: for every period token a row whose timestamp does not parse adds to
\* no aggregate row's count or total, while original_rows is the full input
\* row-set, also when nothing is left to aggregate.
C9_UnparsableOnlyInOriginal ==
    Returned =>
        /\ bundle.original_df = uploaded_file.data
        /\ (HasSummary /\ DateColumn \in uploaded_file.data.columns) =>
              \A i \in 1..Len(bundle.transaction_summary.rows) :
                  LET row == bundle.transaction_summary.rows[i]
                      good == C9_Parsable(row.category)
                  IN /\ good # <<>>
                     /\ row.n_transactions <= CountAmounts(good)
                     /\ row.total_amount_paid <= Round2(SumAmounts(good))

C9_Witness ==
    /\ Returned /\ HasSummary
    /\ DateColumn \in uploaded_file.data.columns
    /\ filter_option = "All Time"
    /\ Len(bundle.original_df.rows) = 2
    /\ bundle.original_df.rows[1][DateColumn] = NotADate
    /\ bundle.grand_total_count = 1

-----------------------------------------------------------------------------
(* Specification SpecSession: the script rerun on every interaction, calling *)
(* load_and_process_data through st.cache_data while the clock moves on      *)

\* the key st.cache_data files a return under: the arguments of the call
CacheKey(file, option) == <<file.name, option>>

SessionFiles ==
    {[kind |-> "file", name |-> "march.csv", readable |-> TRUE,
      data |-> [kind |-> "dataframe",
                columns |-> {CategoryColumn, AmountColumn, DateColumn},
                rows |-> <<(CategoryColumn :> "A") @@ (AmountColumn :> Float(10))
                              @@ (DateColumn :> DateText(FirstYear + 1, 3, 15, 86399)),
                           (CategoryColumn :> "B") @@ (AmountColumn :> Float(4))
                              @@ (DateColumn :> DateText(EndOfFebruary.year, EndOfFebruary.month,
                                                        EndOfFebruary.day, 0))>>]],
     [kind |-> "file", name |-> "other.csv", readable |-> TRUE,
      data |-> [kind |-> "dataframe",
                columns |-> {CategoryColumn, AmountColumn, DateColumn},
                rows |-> <<(CategoryColumn :> "B") @@ (AmountColumn :> Float(10))
                              @@ (DateColumn :> DateText(FirstYear + 1, 3, 16, 0))>>]]}

InitSession ==
    /\ pc = "idle"
    /\ now = DefaultNow
    /\ filter_option = "All Time"
    /\ reference_date = None
    /\ date_range = Idle
    /\ df = None
    /\ uploaded_file = None
    /\ window = Idle
    /\ filtered = None
    /\ bundle = None
    /\ cache = <<>>
    /\ requested_at = None
    /\ calls = 0
    /\ ticks = 0

\* one run of the script with a file uploaded and a period selected: the
\* banner's window is resolved afresh, the bundle comes from the cached call
Rerun(file, option) ==
    /\ calls < MaxCalls
    /\ calls' = calls + 1
    /\ uploaded_file' = file
    /\ filter_option' = option
    /\ date_range' = IF option # "All Time" THEN get_date_range(option, None, now) ELSE Idle
    /\ requested_at' = now
    /\ IF CacheKey(file, option) \in DOMAIN cache
       THEN /\ bundle' = cache[CacheKey(file, option)]
            /\ UNCHANGED cache
       ELSE /\ bundle' \in load_and_process_data(file, option, DateColumn, now)
            /\ cache' = (CacheKey(file, option) :> bundle') @@ cache
    /\ pc' = "shown"
    /\ UNCHANGED <<now, reference_date, df, window, filtered, ticks>>

\* midnight passes
Tick ==
    /\ ticks < MaxTicks
    /\ ticks' = ticks + 1
    /\ now' = PlusSeconds(now, 86400)
    /\ UNCHANGED <<pc, filter_option, reference_date, date_range, df, uploaded_file,
                   window, filtered, bundle, cache, requested_at, calls>>

NextSession ==
    \/ \E file \in SessionFiles, option \in FilterOptions : Rerun(file, option)
    \/ Tick

SpecSession == InitSession /\ [][NextSession]_vars

\* C10: the memoization is keyed by file, period token and reference day:
\* the bundle returned for file F and period P on day D has the window
\* get_date_range(P, D) and aggregates the rows of F inside that window, and a
\* result memoized on an earlier day is never returned on a later day.
C10_BundleOfRequestDay ==
    (pc = "shown") =>
        /\ <<bundle.start_date, bundle.end_date>> = get_date_range(filter_option, None, requested_at)
        /\ bundle \in load_and_process_data(uploaded_file, filter_option, DateColumn, requested_at)

====
